---- MODULE Spec2Model ----
(***************************************************************************)
(* rod-mcp-server: the stdin/stdout JSON-RPC dispatch loop of main.go, the *)
(* lazily created browser session and the eight rod_* tools.               *)
(*                                                                         *)
(* The Go standard library and the rod browser driver are modelled by what *)
(* their calls do: json.Decoder keeps a syntax error forever, a JSON       *)
(* number decoded into interface{} becomes a float64, launcher/rod Must*   *)
(* calls panic on failure, Page.Timeout returns a clone of the page.       *)
(***************************************************************************)
EXTENDS Integers, Sequences, FiniteSets, TLC

\* ---------------------------------------------------------------- bounds
\* Longest input stream (in JSON values) the model reads before end of input.
MaxUnits == 2
\* How many times the model counts Decode returning the same kept error.
MaxSpin == 2

\* ------------------------------------------------------- program constants
CodeMethodNotFound == -32601
CodeInvalidParams == -32602
CodeInternalError == -32603
\* timeout := 30.0 in waitFor, kept in thousandths of a second
DefaultTimeoutMs == 30000

\* --------------------------------------------------------------- JSON ids
\* A JSON number is the integer hi * 2^27 + lo (0 <= lo < 2^27), so that ids
\* beyond 2^53 can be written without leaving TLC's integers.
Half == 2^27

JsonAbsent == [t |-> "absent", s |-> "", hi |-> 0, lo |-> 0]
JsonNull == [t |-> "null", s |-> "", hi |-> 0, lo |-> 0]
JsonString(str) == [t |-> "string", s |-> str, hi |-> 0, lo |-> 0]
JsonNumber(h, l) == [t |-> "number", s |-> "", hi |-> h, lo |-> l]

\* float64 holds integers below 2^53 exactly; from 2^53 to 2^54 only the even
\* ones, an odd one going to the neighbour with the even mantissa.
Float64OfInt(h, l) ==
    IF h < 2^26 \/ l % 2 = 0 THEN [hi |-> h, lo |-> l]
    ELSE IF (l + 1) % 4 = 0
         THEN IF l + 1 = Half THEN [hi |-> h + 1, lo |-> 0]
                              ELSE [hi |-> h, lo |-> l + 1]
         ELSE [hi |-> h, lo |-> l - 1]

\* encoding/json storing a JSON value into ID interface{}: a missing key and
\* null leave nil, a string stays a string, a number becomes a float64.
UnmarshalID(j) ==
    IF j.t = "number"
      THEN [t |-> "float64", s |-> "",
            hi |-> Float64OfInt(j.hi, j.lo).hi, lo |-> Float64OfInt(j.hi, j.lo).lo]
    ELSE IF j.t = "string" THEN [t |-> "string", s |-> j.s, hi |-> 0, lo |-> 0]
    ELSE [t |-> "nil", s |-> "", hi |-> 0, lo |-> 0]

\* encoding/json writing ID interface{}: the key is always written (no
\* omitempty), nil as null.
MarshalID(g) ==
    IF g.t = "float64" THEN JsonNumber(g.hi, g.lo)
    ELSE IF g.t = "string" THEN JsonString(g.s)
    ELSE JsonNull

\* The ids the model's callers send.
JsonIds ==
    { JsonAbsent, JsonNull, JsonString("abc"), JsonNumber(0, 7),
      JsonNumber(2^26, 1) }

\* ------------------------------------------------------- tool arguments
\* One value of the arguments map (map[string]interface{}); a number n is
\* kept in thousandths (2500 is the JSON number 2.5).
Absent == [t |-> "absent", s |-> "", n |-> 0, b |-> FALSE]
Str(str) == [t |-> "string", s |-> str, n |-> 0, b |-> FALSE]
Num(ms) == [t |-> "number", s |-> "", n |-> ms, b |-> FALSE]
Bool(v) == [t |-> "bool", s |-> "", n |-> 0, b |-> v]

ArgKeys ==
    {"url", "selector", "filename", "fullPage", "attribute", "timeout",
     "script", "text"}

ToolNames ==
    {"rod_navigate", "rod_click", "rod_screenshot", "rod_get_attribute",
     "rod_get_text", "rod_wait_for", "rod_eval", "rod_fill"}

\* getTools: the declared type of each property of a tool's inputSchema.
SchemaProps(tool) ==
    CASE tool = "rod_navigate" -> [k \in {"url"} |-> "string"]
      [] tool = "rod_click" -> [k \in {"selector"} |-> "string"]
      [] tool = "rod_screenshot" ->
           [k \in {"filename", "fullPage"} |->
              IF k = "filename" THEN "string" ELSE "bool"]
      [] tool = "rod_get_attribute" ->
           [k \in {"selector", "attribute"} |-> "string"]
      [] tool = "rod_get_text" -> [k \in {"selector"} |-> "string"]
      [] tool = "rod_wait_for" ->
           [k \in {"selector", "timeout"} |->
              IF k = "selector" THEN "string" ELSE "number"]
      [] tool = "rod_eval" -> [k \in {"script"} |-> "string"]
      [] tool = "rod_fill" -> [k \in {"selector", "text"} |-> "string"]
      [] OTHER -> [k \in {} |-> "string"]

\* getTools: the "required" list of a tool's inputSchema.
SchemaRequired(tool) ==
    CASE tool = "rod_navigate" -> {"url"}
      [] tool = "rod_click" -> {"selector"}
      [] tool = "rod_screenshot" -> {}
      [] tool = "rod_get_attribute" -> {"selector", "attribute"}
      [] tool = "rod_get_text" -> {"selector"}
      [] tool = "rod_wait_for" -> {"selector"}
      [] tool = "rod_eval" -> {"script"}
      [] tool = "rod_fill" -> {"selector", "text"}
      [] OTHER -> {}

\* The values a caller of the model sends for each argument: nothing, values
\* of the declared type and, for some, a value of another type.
ArgChoices(k) ==
    CASE k = "url" -> {Absent, Str("http://localhost:8080"), Num(5000)}
      [] k = "selector" -> {Absent, Str("#ok"), Str("#missing"), Num(5000)}
      [] k = "filename" ->
           {Absent, Str("landing-page.png"), Str("../evil.png"), Str(""),
            Num(5000)}
      [] k = "fullPage" -> {Absent, Bool(TRUE)}
      [] k = "attribute" -> {Absent, Str("data-state-demo")}
      [] k = "timeout" -> {Absent, Num(2500), Str("5")}
      [] k = "script" -> {Absent, Str("1+1")}
      [] k = "text" -> {Absent, Str("hello")}

NoArgs == [k \in ArgKeys |-> Absent]

\* The argument maps sent to a tool: its schema's properties take every
\* choice, the other keys are not sent.
ArgMaps(tool) ==
    LET props == DOMAIN SchemaProps(tool)
        sent == { f \in [props -> UNION { ArgChoices(k) : k \in props }] :
                    \A k \in props : f[k] \in ArgChoices(k) }
    IN  { [k \in ArgKeys |-> IF k \in props THEN f[k] ELSE Absent] :
            f \in sent }

\* ------------------------------------------------------ the browser driver
\* A page whose context carries no deadline (what MustPage returns).
NoDeadline == -1
NilPage == [id |-> 0, deadline |-> NoDeadline]
NilBrowser == 0

\* The page the model drives: "#ok" matches an element, nothing else does.
ElementExists(selector) == selector = "#ok"

\* One call made on the driver, with the deadline of the page it ran on and
\* what it returned: "ok", "err" (an error), "hang" (it has not returned) or,
\* for Attribute, "nil" (no such attribute) or "value:" followed by the value.
Call(op, arg, pg) ==
    [op |-> op, arg |-> arg, deadline |-> pg.deadline, ret |-> "ok"]
Failed(c) == [c EXCEPT !.ret = "err"]
Pending(c) == [c EXCEPT !.ret = "hang"]

\* The error text of a failed driver call (opaque to the server).
DriverErr(op) == "driver: " \o op \o " failed"

\* Page.Timeout as a setter that changes the page it is called on.
TimeoutInPlace(pg, d) ==
    [recv |-> [pg EXCEPT !.deadline = d], ret |-> [pg EXCEPT !.deadline = d]]

\* Page.Timeout: returns a clone of the page whose context has the deadline;
\* the page it is called on keeps its own context.
Timeout(pg, d) == [recv |-> pg, ret |-> [pg EXCEPT !.deadline = d]]

\* Page.Element retries until the selector matches or the page's context
\* ends: with no deadline and no matching element it never returns.
ElementOutcomes(pg, selector) ==
    IF pg.deadline = 0 THEN {"err"}
    ELSE IF ElementExists(selector) THEN {"found", "err"}
    ELSE IF pg.deadline = NoDeadline THEN {"hang", "err"}
    ELSE {"err"}

\* A tool return that gives up the page handle when the tool failed
\* (s.page = nil on the error path).
OutcomeDroppingPageOnError(kind, text, calls, pg, fs) ==
    [kind |-> kind, text |-> text, calls |-> calls,
     page |-> IF kind = "err" THEN NilPage ELSE pg, files |-> fs]

\* What one tool call comes to: kind is "ok" (result text), "err" (error
\* text) or "hang" (the call never returns); calls are the driver calls made,
\* page and files the page handle and the files on disk afterwards.
Outcome(kind, text, calls, pg, fs) ==
    [kind |-> kind, text |-> text, calls |-> calls, page |-> pg, files |-> fs]

\* fmt's %v of a float64 given in thousandths: 30000 is "30", 2500 is "2.5".
FormatFloat(ms) ==
    LET whole == ToString(ms \div 1000)
        frac == ms % 1000
    IN  IF frac = 0 THEN whole
        ELSE IF frac % 100 = 0 THEN whole \o "." \o ToString(frac \div 100)
        ELSE IF frac % 10 = 0
             THEN whole \o "." \o (IF frac < 100 THEN "0" ELSE "")
                        \o ToString(frac \div 10)
        ELSE whole \o "." \o (IF frac < 10 THEN "00"
                              ELSE IF frac < 100 THEN "0" ELSE "")
                   \o ToString(frac)

\* time.Duration(timeout) * time.Second: the float is cut to whole seconds.
DurationMs(ms) == (ms \div 1000) * 1000

\* ------------------------------------------------------------ file paths
\* A path is the sequence of its components below the root.
TempDir == <<"tmp">>

\* The components of the file names of the model, split at the separator.
SplitPath(name) ==
    CASE name = "../evil.png" -> <<"..", "evil.png">>
      [] name = "" -> <<>>
      [] OTHER -> <<name>>

RECURSIVE Clean(_, _)
\* filepath.Clean of a rooted path: "." and empty components go, ".." takes
\* the component before it (and nothing at the root).
Clean(parts, done) ==
    IF parts = <<>> THEN done
    ELSE IF Head(parts) \in {"", "."} THEN Clean(Tail(parts), done)
    ELSE IF Head(parts) = ".."
         THEN Clean(Tail(parts),
                    IF done = <<>> THEN done
                    ELSE SubSeq(done, 1, Len(done) - 1))
    ELSE Clean(Tail(parts), Append(done, Head(parts)))

\* filepath.Join(dir, name)
Join(dir, name) == Clean(dir \o SplitPath(name), <<>>)

RECURSIVE PathString(_)
PathString(parts) ==
    IF parts = <<>> THEN ""
    ELSE "/" \o Head(parts) \o PathString(Tail(parts))

\* filepath.Join(os.TempDir(), "rod-screenshots")
ScreenshotDir == Clean(TempDir \o <<"rod-screenshots">>, <<>>)

\* ------------------------------------------------------------- the tools
\* Each tool yields the set of outcomes the driver can make it have.

\* navigate returning success as soon as Navigate has, without WaitLoad.
navigateWithoutWaitLoad(args, pg, fs) ==
    IF args["url"].t # "string"
      THEN {Outcome("err", "url must be a string", <<>>, pg, fs)}
    ELSE LET url == args["url"].s
             nav == Call("Navigate", url, pg)
         IN  { Outcome("err", DriverErr("Navigate"), <<Failed(nav)>>, pg, fs),
               Outcome("ok", "Successfully navigated to " \o url,
                       <<nav>>, pg, fs) }

navigate(args, pg, fs) ==
    IF args["url"].t # "string"
      THEN {Outcome("err", "url must be a string", <<>>, pg, fs)}
    ELSE LET url == args["url"].s
             nav == Call("Navigate", url, pg)
             wait == Call("WaitLoad", "", pg)
         IN  { Outcome("err", DriverErr("Navigate"), <<Failed(nav)>>, pg, fs),
               Outcome("err", DriverErr("WaitLoad"), <<nav, Failed(wait)>>,
                       pg, fs),
               Outcome("ok", "Successfully navigated to " \o url,
                       <<nav, wait>>, pg, fs) }
             \cup (IF pg.deadline = NoDeadline
                   THEN {Outcome("hang", "", <<nav, Pending(wait)>>, pg, fs)}
                   ELSE {})

click(args, pg, fs) ==
    IF args["selector"].t # "string"
      THEN {Outcome("err", "selector must be a string", <<>>, pg, fs)}
    ELSE LET selector == args["selector"].s
             find == Call("Element", selector, pg)
             act == Call("Click", selector, pg)
         IN  UNION { CASE e = "hang" -> {Outcome("hang", "", <<Pending(find)>>, pg, fs)}
                       [] e = "err" ->
                            {Outcome("err", "element not found: " \o selector,
                                     <<Failed(find)>>, pg, fs)}
                       [] e = "found" ->
                            { Outcome("err", DriverErr("Click"),
                                      <<find, Failed(act)>>, pg, fs),
                              Outcome("ok", "Successfully clicked " \o selector,
                                      <<find, act>>, pg, fs) }
                     : e \in ElementOutcomes(pg, selector) }

screenshot(args, pg, fs, now) ==
    LET filename ==
            IF args["filename"].t # "string" \/ args["filename"].s = ""
            THEN "screenshot_" \o ToString(now) \o ".png"
            ELSE args["filename"].s
        fullPage == IF args["fullPage"].t = "bool" THEN args["fullPage"].b
                    ELSE FALSE
        path == Join(ScreenshotDir, filename)
        shot == Call("Screenshot", IF fullPage THEN "fullPage" ELSE "viewport",
                     pg)
    IN  { Outcome("err", DriverErr("Screenshot"), <<Failed(shot)>>, pg, fs),
          Outcome("err", "write " \o PathString(path) \o " failed",
                  <<shot>>, pg, fs),
          Outcome("ok", "Screenshot saved to " \o PathString(path),
                  <<shot>>, pg, fs \cup {path}) }

\* The values the attributes of the page's elements have (one of them empty).
AttributeValues == {"", "visible"}

\* getAttribute with the nil check of the attribute (attr == nil) turned into
\* an error return.
getAttributeNilIsError(args, pg, fs) ==
    IF args["selector"].t # "string"
      THEN {Outcome("err", "selector must be a string", <<>>, pg, fs)}
    ELSE IF args["attribute"].t # "string"
      THEN {Outcome("err", "attribute must be a string", <<>>, pg, fs)}
    ELSE LET selector == args["selector"].s
             attribute == args["attribute"].s
             find == Call("Element", selector, pg)
             read == Call("Attribute", attribute, pg)
         IN  UNION { CASE e = "hang" -> {Outcome("hang", "", <<Pending(find)>>, pg, fs)}
                       [] e = "err" ->
                            {Outcome("err", "element not found: " \o selector,
                                     <<Failed(find)>>, pg, fs)}
                       [] e = "found" ->
                            { Outcome("err", DriverErr("Attribute"),
                                      <<find, Failed(read)>>, pg, fs),
                              Outcome("err",
                                      "Attribute '" \o attribute
                                        \o "' not found on " \o selector,
                                      <<find, [read EXCEPT !.ret = "nil"]>>,
                                      pg, fs) }
                            \cup
                            { Outcome("ok",
                                      "Attribute '" \o attribute \o "' on "
                                        \o selector \o " = '" \o v \o "'",
                                      <<find,
                                        [read EXCEPT !.ret = "value:" \o v]>>,
                                      pg, fs)
                              : v \in AttributeValues }
                     : e \in ElementOutcomes(pg, selector) }

getAttribute(args, pg, fs) ==
    IF args["selector"].t # "string"
      THEN {Outcome("err", "selector must be a string", <<>>, pg, fs)}
    ELSE IF args["attribute"].t # "string"
      THEN {Outcome("err", "attribute must be a string", <<>>, pg, fs)}
    ELSE LET selector == args["selector"].s
             attribute == args["attribute"].s
             find == Call("Element", selector, pg)
             read == Call("Attribute", attribute, pg)
         IN  UNION { CASE e = "hang" -> {Outcome("hang", "", <<Pending(find)>>, pg, fs)}
                       [] e = "err" ->
                            {Outcome("err", "element not found: " \o selector,
                                     <<Failed(find)>>, pg, fs)}
                       [] e = "found" ->
                            { Outcome("err", DriverErr("Attribute"),
                                      <<find, Failed(read)>>, pg, fs),
                              Outcome("ok",
                                      "Attribute '" \o attribute
                                        \o "' not found on " \o selector,
                                      <<find, [read EXCEPT !.ret = "nil"]>>,
                                      pg, fs) }
                            \cup
                            { Outcome("ok",
                                      "Attribute '" \o attribute \o "' on "
                                        \o selector \o " = '" \o v \o "'",
                                      <<find,
                                        [read EXCEPT !.ret = "value:" \o v]>>,
                                      pg, fs)
                              : v \in AttributeValues }
                     : e \in ElementOutcomes(pg, selector) }

getText(args, pg, fs) ==
    IF args["selector"].t # "string"
      THEN {Outcome("err", "selector must be a string", <<>>, pg, fs)}
    ELSE LET selector == args["selector"].s
             find == Call("Element", selector, pg)
             read == Call("Text", selector, pg)
         IN  UNION { CASE e = "hang" -> {Outcome("hang", "", <<Pending(find)>>, pg, fs)}
                       [] e = "err" ->
                            {Outcome("err", "element not found: " \o selector,
                                     <<Failed(find)>>, pg, fs)}
                       [] e = "found" ->
                            { Outcome("err", DriverErr("Text"),
                                      <<find, Failed(read)>>, pg, fs),
                              Outcome("ok",
                                      "Text content of " \o selector
                                        \o ": 'Hello'",
                                      <<find, read>>, pg, fs) }
                     : e \in ElementOutcomes(pg, selector) }

\* s.page.Timeout(d) is called for the page it returns, which is dropped, once
\* before the lookup and once (deferred, with 0) when waitFor returns.
waitFor(args, pg, fs) ==
    IF args["selector"].t # "string"
      THEN {Outcome("err", "selector must be a string", <<>>, pg, fs)}
    ELSE LET selector == args["selector"].s
             timeout == IF args["timeout"].t = "number" THEN args["timeout"].n
                        ELSE DefaultTimeoutMs
             during == Timeout(pg, DurationMs(timeout)).recv
             after == Timeout(during, 0).recv
             find == Call("Element", selector, during)
         IN  { CASE e = "hang" -> Outcome("hang", "", <<Pending(find)>>, during, fs)
                 [] e = "err" ->
                      Outcome("err",
                              "element " \o selector \o " did not appear within "
                                \o FormatFloat(timeout) \o " seconds",
                              <<Failed(find)>>, after, fs)
                 [] e = "found" ->
                      Outcome("ok", "Element " \o selector \o " appeared",
                              <<find>>, after, fs)
               : e \in ElementOutcomes(during, selector) }

eval(args, pg, fs) ==
    IF args["script"].t # "string"
      THEN {Outcome("err", "script must be a string", <<>>, pg, fs)}
    ELSE LET run == Call("Eval", args["script"].s, pg)
         IN  { Outcome("err", DriverErr("Eval"), <<Failed(run)>>, pg, fs),
               Outcome("ok", "JavaScript result: 2", <<run>>, pg, fs) }

fill(args, pg, fs) ==
    IF args["selector"].t # "string"
      THEN {Outcome("err", "selector must be a string", <<>>, pg, fs)}
    ELSE IF args["text"].t # "string"
      THEN {Outcome("err", "text must be a string", <<>>, pg, fs)}
    ELSE LET selector == args["selector"].s
             text == args["text"].s
             find == Call("Element", selector, pg)
             sel == Call("SelectAllText", selector, pg)
             input == Call("Input", text, pg)
         IN  UNION { CASE e = "hang" -> {Outcome("hang", "", <<Pending(find)>>, pg, fs)}
                       [] e = "err" ->
                            {Outcome("err", "element not found: " \o selector,
                                     <<Failed(find)>>, pg, fs)}
                       [] e = "found" ->
                            { Outcome("err", DriverErr("SelectAllText"),
                                      <<find, Failed(sel)>>, pg, fs),
                              Outcome("err", DriverErr("Input"),
                                      <<find, sel, Failed(input)>>, pg, fs),
                              Outcome("ok",
                                      "Filled " \o selector \o " with '"
                                        \o text \o "'",
                                      <<find, sel, input>>, pg, fs) }
                     : e \in ElementOutcomes(pg, selector) }

\* ------------------------------------------------- requests and responses
Methods == {"initialize", "tools/list", "tools/call", "foo/bar"}

\* The params of a request as sent: the key missing, a value that is not the
\* {name, arguments} object, null, or the object.
Params(form, name, arguments) ==
    [form |-> form, name |-> name, arguments |-> arguments]

ParamsFor(method) ==
    IF method = "tools/call"
    THEN { Params(f, "", NoArgs) : f \in {"absent", "badtype", "null"} }
         \cup { Params("object", "rod_unknown", NoArgs) }
         \cup UNION { { Params("object", n, a) : a \in ArgMaps(n) }
                      : n \in ToolNames }
    ELSE { Params("absent", "", NoArgs) }

\* The well-formed requests of the model, as JSON values on the input.
Requests ==
    UNION { { [id |-> i, method |-> m, params |-> p] : p \in ParamsFor(m) }
            : <<i, m>> \in JsonIds \X Methods }

\* Decode into MCPRequest: the id through interface{}, params kept raw.
DecodeRequestValue(j) ==
    [ID |-> UnmarshalID(j.id), Method |-> j.method, Params |-> j.params]

NoRequest ==
    [ID |-> UnmarshalID(JsonAbsent), Method |-> "",
     Params |-> Params("absent", "", NoArgs)]
NoSent == [id |-> JsonAbsent, method |-> "",
           params |-> Params("absent", "", NoArgs)]

\* getTools: the names of the catalog, in its order.
Catalog ==
    <<"rod_navigate", "rod_click", "rod_screenshot", "rod_get_attribute",
      "rod_get_text", "rod_wait_for", "rod_eval", "rod_fill">>

\* MCPResponse.Result (interface{}) and MCPResponse.Error (*MCPError); set is
\* FALSE for nil.
NilResult == [set |-> FALSE, kind |-> "", text |-> "", tools |-> <<>>]
NilError == [set |-> FALSE, code |-> 0, message |-> ""]
ErrorOf(code, message) == [set |-> TRUE, code |-> code, message |-> message]

ResultResponse(id, kind, text, tools) ==
    [ID |-> id,
     Result |-> [set |-> TRUE, kind |-> kind, text |-> text, tools |-> tools],
     Error |-> NilError]
ErrorResponse(id, code, message) ==
    [ID |-> id, Result |-> NilResult, Error |-> ErrorOf(code, message)]
NoResponse == [ID |-> UnmarshalID(JsonAbsent), Result |-> NilResult,
               Error |-> NilError]

\* encoder.Encode(resp): id always written; result and error are omitempty,
\* written when not nil.
EncodeResponse(r) ==
    [id |-> MarshalID(r.ID),
     keys |-> {"jsonrpc", "id"}
              \cup (IF r.Result.set THEN {"result"} ELSE {})
              \cup (IF r.Error.set THEN {"error"} ELSE {}),
     result |-> r.Result, error |-> r.Error]
NoWire == [id |-> JsonAbsent, keys |-> {}, result |-> NilResult,
           error |-> NilError]

\* handleRequest for the methods that are not tools/call.
handleRequest(rq) ==
    CASE rq.Method = "initialize" ->
           ResultResponse(rq.ID, "initialize", "rod-mcp-server 1.0.0", <<>>)
      [] rq.Method = "tools/list" ->
           ResultResponse(rq.ID, "tools", "", Catalog)
      [] OTHER ->
           ErrorResponse(rq.ID, CodeMethodNotFound,
                         "Method not found: " \o rq.Method)

\* json.Unmarshal(req.Params, &params): the error text, "" when it succeeds
\* (null succeeds and leaves name "" and the arguments nil).
UnmarshalParamsError(ps) ==
    CASE ps.form = "absent" -> "unexpected end of JSON input"
      [] ps.form = "badtype" -> "json: cannot unmarshal into Go value"
      [] OTHER -> ""

\* ------------------------------------------------------------ the session
\* The nil check of s.browser left out.
NeedsInitAlways(b) == TRUE

\* if s.browser == nil
NeedsInit(b) == b = NilBrowser

\* What the driver does to initBrowser: everything works, or MustLaunch,
\* MustConnect or MustPage panics.
InitOutcomes == {"ok", "launch", "connect", "page"}

NoDriver ==
    [inits |-> 0, launched |-> 0, connected |-> 0, pages |-> 0,
     closes |-> <<>>]

\* initBrowser under driver outcome o: the fields are assigned as the calls
\* return, and a panic leaves the function at the failing call. It has no
\* path that returns an error.
initBrowser(b, pg, drv, o) ==
    LET entered == [drv EXCEPT !.inits = @ + 1]
        afterLaunch == IF o = "launch" THEN entered
                       ELSE [entered EXCEPT !.launched = @ + 1]
        afterConnect == IF o \in {"launch", "connect"} THEN afterLaunch
                        ELSE [afterLaunch EXCEPT !.connected = @ + 1]
        afterPage == IF o = "ok" THEN [afterConnect EXCEPT !.pages = @ + 1]
                     ELSE afterConnect
    IN  [panicked |-> o # "ok",
         browser |-> IF o \in {"page", "ok"} THEN afterConnect.connected ELSE b,
         page |-> IF o = "ok" THEN [id |-> afterPage.pages,
                                    deadline |-> NoDeadline]
                  ELSE pg,
         driver |-> afterPage]

\* What a Close call returns: nil or an error.
CloseOutcomes == {"ok", "err"}

\* One Close call made on the driver.
Close(handle, ret) == [handle |-> handle, ret |-> ret]

\* cleanup returning at the first Close that fails.
cleanupStoppingAtError(b, pg, drv, pageClose, browserClose) ==
    [drv EXCEPT !.closes =
        @ \o (IF pg # NilPage THEN <<Close("page", pageClose)>> ELSE <<>>)
          \o (IF b # NilBrowser /\ ~(pg # NilPage /\ pageClose = "err")
              THEN <<Close("browser", browserClose)>> ELSE <<>>)]

\* cleanup: the page is closed if there is one, then the browser if there is
\* one; what Close returns is dropped.
cleanup(b, pg, drv, pageClose, browserClose) ==
    [drv EXCEPT !.closes =
        @ \o (IF pg # NilPage THEN <<Close("page", pageClose)>> ELSE <<>>)
          \o (IF b # NilBrowser THEN <<Close("browser", browserClose)>>
              ELSE <<>>)]

\* The switch of handleToolCall over the tool name.
ToolOutcomes(name, args, pg, fs, now) ==
    CASE name = "rod_navigate" -> navigate(args, pg, fs)
      [] name = "rod_click" -> click(args, pg, fs)
      [] name = "rod_screenshot" -> screenshot(args, pg, fs, now)
      [] name = "rod_get_attribute" -> getAttribute(args, pg, fs)
      [] name = "rod_get_text" -> getText(args, pg, fs)
      [] name = "rod_wait_for" -> waitFor(args, pg, fs)
      [] name = "rod_eval" -> eval(args, pg, fs)
      [] name = "rod_fill" -> fill(args, pg, fs)
      [] OTHER -> {}

\* time.Now().Unix() when a screenshot is taken.
Clock == {1700000000}

\* The Go type of an argument value against a schema type.
HasType(v, ty) ==
    \/ ty = "string" /\ v.t = "string"
    \/ ty = "number" /\ v.t = "number"
    \/ ty = "bool" /\ v.t = "bool"

\* The arguments break the tool's inputSchema: a required one is missing, or
\* one that is sent has another type than declared.
ArgFault(name, args) ==
    \/ \E k \in SchemaRequired(name) : args[k].t = "absent"
    \/ \E k \in DOMAIN SchemaProps(name) :
          args[k].t # "absent" /\ ~HasType(args[k], SchemaProps(name)[k])

\* ------------------------------------------------------------------ state
VARIABLES
    stream,     \* the JSON values on stdin, by kind, followed by end of input
    scanp,      \* how many of them the decoder has consumed
    decErr,     \* the decoder's kept error (dec.err) is set
    spins,      \* Decode calls that failed since the decoder last advanced
    pc,         \* where main is
    sent,       \* the request being handled, as sent
    req,        \* the request being handled, decoded (MCPRequest)
    nreq,       \* requests decoded so far
    resp,       \* what handleRequest returned for it
    wire,       \* the response written for it, as JSON
    out,        \* stdout: for each response written, the request it answers
    ioFault,    \* a write to stdout has failed
    browser,    \* Server.browser
    page,       \* Server.page
    driver,     \* initBrowser calls, browsers launched, connections made,
                \* pages opened, handles closed
    files,      \* the files written to disk
    cleanups,   \* runs of Server.cleanup
    last        \* how the request being handled went

vars ==
    <<stream, scanp, decErr, spins, pc, sent, req, nreq, resp, wire, out,
      ioFault, browser, page, driver, files, cleanups, last>>

session == <<browser, page, driver, files>>

UnitKinds == {"req", "badtype", "syntax"}

\* How the request in hand went: origin is where it failed ("none" if it did
\* not), init what initBrowser did, browser and page the session when the
\* handler was entered, entry the page the tool was given, calls the driver
\* calls, kind the tool's outcome, cause the underlying error text.
\* Nothing is recorded about a request until it is handled.
NoLast ==
    [origin |-> "none", init |-> "none", tool |-> "", argFault |-> FALSE,
     browser |-> NilBrowser, page |-> NilPage, entry |-> NilPage,
     calls |-> <<>>, kind |-> "none", cause |-> ""]

Init ==
    /\ stream \in UNION { [1..n -> UnitKinds] : n \in 0..MaxUnits }
    /\ scanp = 0
    /\ decErr = FALSE
    /\ spins = 0
    /\ pc = "loop"
    /\ sent = NoSent
    /\ req = NoRequest
    /\ nreq = 0
    /\ resp = NoResponse
    /\ wire = NoWire
    /\ out = <<>>
    /\ ioFault = FALSE
    /\ browser = NilBrowser
    /\ page = NilPage
    /\ driver = NoDriver
    /\ files = {}
    /\ cleanups = 0
    /\ last = NoLast

\* ----------------------------------------------------------- main's loop
\* The head of the for loop: var req MCPRequest is a fresh request.
LoopHead ==
    /\ pc = "loop"
    /\ sent' = NoSent
    /\ req' = NoRequest
    /\ resp' = NoResponse
    /\ wire' = NoWire
    /\ last' = NoLast
    /\ pc' = "decode"
    /\ UNCHANGED <<stream, scanp, decErr, spins, nreq, out, ioFault, session,
                   cleanups>>

\* decoder.Decode at the end of the input: io.EOF, break.
DecodeEOF ==
    /\ pc = "decode" /\ ~decErr /\ scanp = Len(stream)
    /\ pc' = "exiting"
    /\ UNCHANGED <<stream, scanp, decErr, spins, sent, req, nreq, resp, wire,
                   out, ioFault, session, cleanups, last>>

\* A complete JSON value that does not fit MCPRequest: the decoder has read
\* past it when Unmarshal fails, and main continues.
DecodeTypeError ==
    /\ pc = "decode" /\ ~decErr /\ scanp < Len(stream)
    /\ stream[scanp + 1] = "badtype"
    /\ scanp' = scanp + 1
    /\ spins' = 0
    /\ pc' = "loop"
    /\ UNCHANGED <<stream, decErr, sent, req, nreq, resp, wire, out,
                   ioFault, session, cleanups, last>>

\* Input that is not JSON: the decoder keeps the syntax error and does not
\* advance; main continues.
DecodeSyntaxError ==
    /\ pc = "decode" /\ ~decErr /\ scanp < Len(stream)
    /\ stream[scanp + 1] = "syntax"
    /\ decErr' = TRUE
    /\ spins' = 1
    /\ pc' = "loop"
    /\ UNCHANGED <<stream, scanp, sent, req, nreq, resp, wire, out,
                   ioFault, session, cleanups, last>>

\* Decode with the kept error set returns that error at once; main continues.
DecodeKeptError ==
    /\ pc = "decode" /\ decErr
    /\ spins' = IF spins < MaxSpin THEN spins + 1 ELSE spins
    /\ pc' = "loop"
    /\ UNCHANGED <<stream, scanp, decErr, sent, req, nreq, resp, wire,
                   out, ioFault, session, cleanups, last>>

DecodeRequest ==
    /\ pc = "decode" /\ ~decErr /\ scanp < Len(stream)
    /\ stream[scanp + 1] = "req"
    /\ \E j \in Requests :
          /\ sent' = j
          /\ req' = DecodeRequestValue(j)
    /\ scanp' = scanp + 1
    /\ spins' = 0
    /\ nreq' = nreq + 1
    /\ pc' = "handle"
    /\ UNCHANGED <<stream, decErr, resp, wire, out, ioFault, session,
                   cleanups, last>>

\* handleRequest with the browser initialized before the switch over the
\* method, as handleToolCall does before its switch over the tool.
HandleRequestLaunching ==
    /\ pc = "handle" /\ req.Method # "tools/call"
    /\ resp' = handleRequest(req)
    /\ last' = [NoLast EXCEPT !.browser = browser, !.page = page,
                              !.kind = "ok"]
    /\ LET s == initBrowser(browser, page, driver, "ok")
       IN  /\ browser' = s.browser
           /\ page' = s.page
           /\ driver' = s.driver
    /\ pc' = "encode"
    /\ UNCHANGED <<stream, scanp, decErr, spins, sent, req, nreq, wire, out,
                   ioFault, files, cleanups>>

\* handleRequest: initialize, tools/list and the default case.
HandleRequest ==
    /\ pc = "handle" /\ req.Method # "tools/call"
    /\ resp' = handleRequest(req)
    /\ last' = [NoLast EXCEPT
                  !.origin = IF req.Method \in {"initialize", "tools/list"}
                             THEN "none" ELSE "method",
                  !.browser = browser, !.page = page,
                  !.kind = IF req.Method \in {"initialize", "tools/list"}
                           THEN "ok" ELSE "err"]
    /\ pc' = "encode"
    /\ UNCHANGED <<stream, scanp, decErr, spins, sent, req, nreq, wire, out,
                   ioFault, session, cleanups>>

\* handleToolCall when json.Unmarshal of the params fails.
ToolCallInvalidParams ==
    /\ pc = "handle" /\ req.Method = "tools/call"
    /\ UnmarshalParamsError(req.Params) # ""
    /\ resp' = ErrorResponse(req.ID, CodeInvalidParams,
                             "Invalid params: "
                               \o UnmarshalParamsError(req.Params))
    /\ last' = [NoLast EXCEPT !.origin = "params", !.browser = browser,
                              !.page = page, !.kind = "err",
                              !.cause = UnmarshalParamsError(req.Params)]
    /\ pc' = "encode"
    /\ UNCHANGED <<stream, scanp, decErr, spins, sent, req, nreq, wire, out,
                   ioFault, session, cleanups>>

\* handleToolCall from the nil check of s.browser on: the browser is
\* initialized if there is none, then the tool named is run.
ToolCallRun ==
    /\ pc = "handle" /\ req.Method = "tools/call"
    /\ UnmarshalParamsError(req.Params) = ""
    /\ \E o \in (IF NeedsInit(browser) THEN InitOutcomes ELSE {"none"}) :
         LET name == req.Params.name
             args == req.Params.arguments
             s == IF o = "none"
                  THEN [panicked |-> FALSE, browser |-> browser,
                        page |-> page, driver |-> driver]
                  ELSE initBrowser(browser, page, driver, o)
             seen == [NoLast EXCEPT !.init = o, !.tool = name,
                                    !.argFault = ArgFault(name, args),
                                    !.browser = browser, !.page = page,
                                    !.entry = s.page]
         IN  /\ browser' = s.browser
             /\ driver' = s.driver
             /\ IF s.panicked
                THEN /\ page' = s.page
                     /\ pc' = "panicking"
                     /\ last' = [seen EXCEPT !.origin = "session",
                                             !.kind = "panic",
                                             !.cause = "launch/connect/page"]
                     /\ UNCHANGED <<resp, files>>
                ELSE IF name \notin ToolNames
                THEN /\ page' = s.page
                     /\ resp' = ErrorResponse(req.ID, CodeMethodNotFound,
                                              "Unknown tool: " \o name)
                     /\ pc' = "encode"
                     /\ last' = [seen EXCEPT !.origin = "tool", !.kind = "err"]
                     /\ UNCHANGED files
                ELSE \E now \in Clock :
                     \E r \in ToolOutcomes(name, args, s.page, files, now) :
                        /\ page' = r.page
                        /\ files' = r.files
                        /\ last' = [seen EXCEPT
                                      !.origin = IF r.kind = "err" THEN "exec"
                                                 ELSE "none",
                                      !.kind = r.kind, !.calls = r.calls,
                                      !.cause = IF r.kind = "err" THEN r.text
                                                ELSE ""]
                        /\ CASE r.kind = "hang" ->
                                  /\ pc' = "blocked"
                                  /\ UNCHANGED resp
                             [] r.kind = "err" ->
                                  /\ pc' = "encode"
                                  /\ resp' = ErrorResponse(req.ID,
                                               CodeInternalError, r.text)
                             [] r.kind = "ok" ->
                                  /\ pc' = "encode"
                                  /\ resp' = ResultResponse(req.ID, "content",
                                                            r.text, <<>>)
    /\ UNCHANGED <<stream, scanp, decErr, spins, sent, req, nreq, wire, out,
                   ioFault, cleanups>>

\* encoder.Encode(resp) writes the response.
EncodeWritten ==
    /\ pc = "encode"
    /\ wire' = EncodeResponse(resp)
    /\ out' = Append(out, nreq)
    /\ pc' = "loop"
    /\ UNCHANGED <<stream, scanp, decErr, spins, sent, req, nreq, resp,
                   ioFault, session, cleanups, last>>

\* encoder.Encode(resp) fails on stdout: reported on stderr, nothing written.
EncodeFailed ==
    /\ pc = "encode"
    /\ ioFault' = TRUE
    /\ pc' = "loop"
    /\ UNCHANGED <<stream, scanp, decErr, spins, sent, req, nreq, resp, wire,
                   out, session, cleanups, last>>

\* defer server.cleanup(): runs when main returns and when it panics.
Cleanup ==
    /\ pc \in {"exiting", "panicking"}
    /\ \E pageClose \in CloseOutcomes, browserClose \in CloseOutcomes :
          driver' = cleanup(browser, page, driver, pageClose, browserClose)
    /\ cleanups' = cleanups + 1
    /\ pc' = IF pc = "exiting" THEN "exited" ELSE "crashed"
    /\ UNCHANGED <<stream, scanp, decErr, spins, sent, req, nreq, resp, wire,
                   out, ioFault, browser, page, files, last>>

Next ==
    \/ LoopHead
    \/ DecodeEOF
    \/ DecodeTypeError
    \/ DecodeSyntaxError
    \/ DecodeKeptError
    \/ DecodeRequest
    \/ HandleRequest
    \/ ToolCallInvalidParams
    \/ ToolCallRun
    \/ EncodeWritten
    \/ EncodeFailed
    \/ Cleanup

Spec == Init /\ [][Next]_vars

\* main runs on: a step that is possible is taken.
FairSpec == Spec /\ WF_vars(Next)

\* ================================================================ claims
Handling == pc \in {"handle", "encode", "panicking", "blocked"}
Answered == wire # NoWire
Returned == last.kind \in {"ok", "err"}

\* C1: one response per decoded request, written before the next request is
\* read and in request order; unless a write to stdout failed, no decoded
\* request is left without its response once main has moved past it.
C1_OneResponsePerRequestInOrder ==
    ~ioFault =>
        /\ out = [i \in 1..Len(out) |-> i]
        /\ Len(out) = IF Handling THEN nreq - 1 ELSE nreq

\* C2: when session creation fails during a tools/call, that request gets an
\* error response, browser and page stay unset and the loop keeps running.
C2_InitFailureIsAnErrorResponse ==
    last.init \in {"launch", "connect", "page"} =>
        /\ pc \in {"encode", "loop"}
        /\ resp.Error.set /\ ~resp.Result.set
        /\ browser = NilBrowser /\ page = NilPage

\* C3: a unit that fails to decode is skipped and the loop continues with the
\* units after it: no unit makes Decode fail a second time.
C3_FailedUnitIsSkipped == spins <= 1

\* C4: when the input ends the loop terminates and teardown runs exactly
\* once, whatever happened before, and never while a request is in hand.
C4_TerminatesWithOneTeardown ==
    /\ <>(pc = "exited" /\ cleanups = 1)
    /\ [](cleanups <= 1)
    /\ [](cleanups >= 1 => pc = "exited")

\* C5: the browser and the page are created at most once in a process,
\* however many tools/call requests are handled: by the first tools/call that
\* gets to initBrowser, and by no request after it.
C5_SessionCreatedAtMostOnce ==
    /\ driver.inits <= 1
    /\ driver.launched <= 1
    /\ driver.connected <= 1
    /\ driver.pages <= 1
    /\ browser \in {NilBrowser, 1}
    /\ page.id \in {0, 1}

\* C5 witness: a second tools/call ran a tool on the session the first made.
C5_SecondCallOnSameSession ==
    /\ nreq >= 2
    /\ last.tool \in ToolNames /\ last.init = "none" /\ Returned
    /\ browser = 1 /\ page.id = 1 /\ driver.pages = 1

\* The id of a response echoes the id of the request (absent is echoed as
\* null, the key being required in a response).
IdEchoed(requestId, responseId) ==
    IF requestId.t = "absent" THEN responseId = JsonNull
    ELSE responseId = requestId

\* C6: the id of every response equals the id of its request, whatever the
\* method and the outcome.
C6_ResponseIdEqualsRequestId ==
    Answered => IdEchoed(sent.id, wire.id)

\* C7: a response has exactly one of result and error, and every failure
\* path yields a response with an error and no result.
C7_ExactlyOneOfResultAndError ==
    /\ Answered => (("result" \in wire.keys) # ("error" \in wire.keys))
    /\ last.origin # "none" =>
          /\ pc \in {"encode", "loop"}
          /\ resp.Error.set /\ ~resp.Result.set

\* C8: a tools/call with a required argument missing or an argument of the
\* wrong type is answered with an error and no result, and leaves the
\* session as it was.
C8_ArgumentFaultIsAnError ==
    (last.argFault /\ last.tool \in ToolNames /\ Returned) =>
        /\ resp.Error.set /\ ~resp.Result.set
        /\ page = last.entry

\* C9: the error code is fixed by where the failure arose: params that do not
\* decode -32602, unknown method or tool -32601, session creation or tool
\* execution -32603 with the underlying message; there is no other code.
C9_ErrorCodeByOrigin ==
    /\ last.origin = "params" =>
          resp.Error.set /\ resp.Error.code = CodeInvalidParams
    /\ last.origin \in {"method", "tool"} =>
          resp.Error.set /\ resp.Error.code = CodeMethodNotFound
    /\ last.origin = "exec" =>
          /\ resp.Error.set /\ resp.Error.code = CodeInternalError
          /\ resp.Error.message = last.cause
    /\ last.origin = "session" =>
          resp.Error.set /\ resp.Error.code = CodeInternalError
    /\ resp.Error.set =>
          resp.Error.code \in
              {CodeInvalidParams, CodeMethodNotFound, CodeInternalError}

\* C10: when wait_for returns, with a result or with an error, the page has
\* the timeout configuration it had when wait_for was entered, and the calls
\* any other tool makes on the driver run without a deadline.
C10_WaitForLeavesTimeoutAsItWas ==
    /\ (last.tool = "rod_wait_for" /\ Returned) =>
          page.deadline = last.entry.deadline
    /\ (last.tool \in ToolNames \ {"rod_wait_for"}) =>
          \A i \in 1..Len(last.calls) : last.calls[i].deadline = NoDeadline

\* C10 witness: wait_for, asked for a timeout, has returned an error.
C10_WaitForFailedWithTimeoutGiven ==
    /\ last.tool = "rod_wait_for" /\ last.kind = "err"
    /\ last.calls # <<>>
    /\ sent.params.arguments["timeout"].t = "number"

\* The tools that resolve a selector and then act on the element.
SelectorTools == {"rod_click", "rod_get_attribute", "rod_get_text", "rod_fill"}

\* The tool in hand has looked up a selector that matches no element.
LookedUpMissing ==
    /\ last.calls # <<>>
    /\ last.calls[1].op = "Element"
    /\ ~ElementExists(last.calls[1].arg)

IsUnder(dir, path) ==
    /\ Len(path) > Len(dir)
    /\ SubSeq(path, 1, Len(dir)) = dir

\* C12: every file written lies inside <temp dir>/rod-screenshots, whatever
\* file name the caller gave.
C12_WritesStayInScreenshotDir ==
    \A f \in files : IsUnder(ScreenshotDir, f)

\* The timeout a wait_for call asks for, in thousandths of a second.
RequestedTimeoutMs ==
    IF sent.params.arguments["timeout"].t = "number"
    THEN sent.params.arguments["timeout"].n
    ELSE DefaultTimeoutMs

\* C15: wait_for resolves the element once, under the timeout asked for (30
\* seconds by default), and when the element never appears it ends with an
\* error that states the selector and the timeout instead of waiting on.
C15_WaitForRunsUnderRequestedTimeout ==
    (last.tool = "rod_wait_for" /\ last.calls # <<>>) =>
        /\ Len(last.calls) = 1
        /\ last.calls[1].op = "Element"
        /\ last.calls[1].deadline = RequestedTimeoutMs
        /\ last.kind # "hang"
        /\ (~ElementExists(last.calls[1].arg) =>
              /\ resp.Error.set
              /\ resp.Error.message =
                    "element " \o last.calls[1].arg
                      \o " did not appear within "
                      \o FormatFloat(RequestedTimeoutMs) \o " seconds")

\* C16: a tools/call whose params do not decode, or that names no known
\* tool, leaves an absent session absent and launches no browser.
C16_NoSessionForBadCall ==
    ( /\ sent.method = "tools/call"
      /\ \/ UnmarshalParamsError(sent.params) # ""
         \/ sent.params.name \notin ToolNames
      /\ last.kind = "err"
      /\ last.browser = NilBrowser ) =>
        /\ browser = NilBrowser /\ page = NilPage
        /\ driver.inits = 0 /\ driver.launched = 0
        /\ resp.Error.set

\* C13: a request whose method is initialize, tools/list or an unrecognized
\* one changes nothing of the server: handling it leaves the browser, the page
\* (its timeout included), the driver's record and the files as they were and
\* makes no driver call, wherever in the sequence it comes; and the result of
\* tools/list is the catalog, every time.
C13_OtherMethodsChangeNothing ==
    [][(pc = "handle" /\ req.Method # "tools/call") =>
          /\ UNCHANGED <<browser, page, driver, files, cleanups>>
          /\ last'.calls = <<>>
          /\ (req.Method = "tools/list" =>
                /\ resp'.Result.set /\ ~resp'.Error.set
                /\ resp'.Result.tools = Catalog)]_vars

\* tools/list answered as the second request, after a tool call that created
\* the session.
C13_ToolsListAfterSessionCreated ==
    /\ pc = "encode" /\ nreq = 2
    /\ req.Method = "tools/list"
    /\ browser # NilBrowser /\ page # NilPage
    /\ last.browser = browser /\ last.page = page
    /\ resp.Result.tools = Catalog

\* What elem.Attribute returned to the get_attribute call in hand.
AttributeRead == last.calls[2].ret

\* The get_attribute call in hand found its element and asked for the
\* attribute.
ReadAttribute ==
    /\ last.tool = "rod_get_attribute"
    /\ Len(last.calls) = 2
    /\ last.calls[1].op = "Element" /\ last.calls[1].ret = "ok"
    /\ last.calls[2].op = "Attribute"

\* C14: get_attribute on an element that exists: an attribute that is absent
\* gives a result (no error) whose text says it was not found; an attribute
\* that is present and empty gives a result with the empty value; and an
\* error comes only from a driver call that failed (the lookup of the element
\* or the read of the attribute).
C14_AbsentAttributeIsNotAnError ==
    /\ ReadAttribute =>
          LET selector == last.calls[1].arg
              attribute == last.calls[2].arg
          IN  /\ AttributeRead = "nil" =>
                    /\ resp.Result.set /\ ~resp.Error.set
                    /\ resp.Result.text = "Attribute '" \o attribute
                          \o "' not found on " \o selector
              /\ AttributeRead = "value:" =>
                    /\ resp.Result.set /\ ~resp.Error.set
                    /\ resp.Result.text = "Attribute '" \o attribute
                          \o "' on " \o selector \o " = ''"
              /\ resp.Error.set => AttributeRead = "err"
    /\ (last.tool = "rod_get_attribute" /\ last.calls # <<>>
          /\ resp.Error.set) =>
          last.calls[Len(last.calls)].ret = "err"

\* get_attribute answered with a result for an attribute the element lacks.
C14_AbsentAttributeAnswered ==
    /\ pc = "encode" /\ ReadAttribute
    /\ AttributeRead = "nil"
    /\ resp.Result.set

\* main is between two requests, or about to handle one.
AtRequestBoundary == pc \in {"loop", "decode", "handle"}

SessionExists == browser # NilBrowser /\ page # NilPage

\* C17: once the browser and the page exist no step assigns either handle
\* again, clears it or creates another (a failing tool call included, and the
\* timeout of the page included); a tool call made while they exist runs on
\* that page; at every request boundary the browser and the page are both
\* absent or both present; and no tool makes a driver call on an absent page.
C17_SessionHandlesAreStable ==
    /\ [][SessionExists =>
            /\ browser' = browser /\ page' = page
            /\ driver'.inits = driver.inits
            /\ driver'.launched = driver.launched
            /\ driver'.connected = driver.connected
            /\ driver'.pages = driver.pages]_vars
    /\ [](AtRequestBoundary => (browser = NilBrowser <=> page = NilPage))
    /\ []((last.tool # "" /\ last.browser # NilBrowser) =>
            last.entry = last.page /\ last.entry # NilPage)
    /\ [](last.calls # <<>> => last.entry # NilPage)

\* A second request whose tool failed in a driver call, on the session the
\* first request created: the handles are the ones it found.
C17_ToolFailedOnExistingSession ==
    /\ pc = "encode" /\ nreq = 2
    /\ last.browser # NilBrowser /\ last.page # NilPage
    /\ last.kind = "err" /\ last.calls # <<>>
    /\ last.calls[Len(last.calls)].ret = "err"
    /\ browser = last.browser /\ page = last.page

TornDown == pc \in {"exited", "crashed"}

\* The handles closed, in the order of the Close calls.
ClosedHandles == [i \in 1..Len(driver.closes) |-> driver.closes[i].handle]

\* C18: teardown closes the page and then the browser connection, the
\* browser also when closing the page failed; it closes each handle that
\* exists once, and nothing when there is no session; nothing is closed before
\* teardown.
C18_TeardownClosesPageThenBrowser ==
    /\ ~TornDown => driver.closes = <<>>
    /\ TornDown =>
          ClosedHandles = (IF page # NilPage THEN <<"page">> ELSE <<>>)
                            \o (IF browser # NilBrowser THEN <<"browser">>
                                ELSE <<>>)

\* Teardown of a session whose page failed to close: the browser was closed
\* after it.
C18_BrowserClosedAfterPageCloseFailed ==
    /\ TornDown /\ SessionExists
    /\ Len(driver.closes) = 2
    /\ driver.closes[1] = Close("page", "err")
    /\ driver.closes[2].handle = "browser"

\* The operations of the driver calls of the request in hand, in order.
CallOps == [i \in 1..Len(last.calls) |-> last.calls[i].op]

IsPrefix(s, whole) == Len(s) <= Len(whole) /\ s = SubSeq(whole, 1, Len(s))

C20_NavigateWaitsForLoad ==
    last.tool = "rod_navigate" =>
        /\ IsPrefix(CallOps, <<"Navigate", "WaitLoad">>)
        /\ (last.kind = "ok" \/ resp.Result.set) =>
              /\ Len(last.calls) = 2
              /\ last.calls[1].ret = "ok" /\ last.calls[2].ret = "ok"
              /\ resp.Result.text = "Successfully navigated to "
                                      \o last.calls[1].arg
        /\ (last.calls # <<>> /\ last.calls[1].ret = "err") =>
              Len(last.calls) = 1
        /\ (\E i \in 1..Len(last.calls) : last.calls[i].ret = "err") =>
              /\ last.kind = "err"
              /\ resp.Error.set /\ ~resp.Result.set

\* navigate answered with the success text, after Navigate and WaitLoad.
C20_NavigatedAndLoaded ==
    /\ pc = "encode" /\ last.tool = "rod_navigate"
    /\ resp.Result.set
    /\ CallOps = <<"Navigate", "WaitLoad">>
    /\ last.calls[2].ret = "ok"

====
